---------------------------- MODULE Spec2Model ----------------------------
(***************************************************************************)
(* A model of yahoo_fantasy.py: the round-robin matchup comparison         *)
(* (create_matchup_comparison), the per-category extremes (max_min_stats), *)
(* the credentials refresh (refresh_oauth_file) and the day-by-day roster  *)
(* walk of the main script.                                                *)
(*                                                                         *)
(* Text is modelled as a sequence of one-character strings, so that        *)
(* formatting (f-strings, ', '.join) and filtering (fix_names_teams) are   *)
(* computed as the code computes them.  Stat values are naturals.          *)
(* matchupWinner holds floats 1, 0, .5 and -1; they are kept in units of   *)
(* one half (2, 0, 1, -2), see Win, Loss, Tie and NotPlayed.               *)
(***************************************************************************)
EXTENDS Integers, Sequences, FiniteSets, TLC

\* ------------------------------------------------------------------ bounds
\* number of team rows of the weekly dataframe
NumTeams == 3
\* number of league stat categories; the last one is the turnover category
NumCats == 2
\* largest stat value of a team row
MaxVal == 1
\* number of teams whose rosters are walked, and of players in the league
NumWalkTeams == 1
NumPlayers == 2
\* largest value of a category in a player's stat line of one day
MaxStat == 1
\* largest dateDiff.days of the week walked
MaxDateDiff == 6
\* most games of one player, and most days with a roster move, in the walk
MaxGames == 2
MaxMoves == 2

VARIABLES
    \* ---- the dataframe pipeline (extract / create_matchup_comparison / max_min_stats)
    df,             \* the weekly dataframe: a sequence of team rows, in positional order
    matchupScore,   \* [i][j] -> text, the 'W-L-T' annotation
    matchupWinner,  \* [i][j] -> value in halves
    tally,          \* [i][j] -> the counters curScore, vsScore, tieScore of the pair
    maxStatDF,      \* sequence of [Stat, Value, Managers]
    minStatDF,
    tpc,            \* position of the dataframe pipeline
    \* ---- refresh_oauth_file
    oauthExt,       \* os.path.splitext(oauthFile)[1]
    refresh,        \* the refresh flag
    oauthFile,      \* the credentials file on disk: NoFile, or its format and keys
    oauthKeys,      \* the dictionary loaded from the file
    newKeys,        \* the dictionary written back
    opc,            \* position in refresh_oauth_file, or how it ended
    fileAtCall,     \* history: the credentials file as it was when the call began
    \* ---- the day-by-day walk of the main script
    dateDiff,       \* dateDiff.days
    dIdx,           \* the number of days walked, the index of the next one
    previousSunday, \* per team: player_id -> the stat columns of that roster
    rosterTotals,   \* per team: player_id -> [stats, dropped, added]
    currentRoster,  \* per team: the player ids of the roster fetched last
    playerStats,    \* player_id -> stat line, of the players with a game that day
    adds,           \* per team: the 'adds' column
    addedPlayerStats, \* per team: the counting-stat columns, the value added
    improvement,    \* per team: the 'improved categories' column
    worsened,       \* per team: the 'worsened categories' column
    playerBoost,    \* per team: the counting-stat columns of addsDF
    wpc,            \* position of the main script
    \* ---- history of the walk (what the API answered), read by the claims only
    played,         \* per team and player: the sum of the player's stat lines over
                    \* the walked days the player was on the roster and had a game
    weekEnd,        \* the roster and the rosterTotals rows at the end of the
                    \* week's last day (endDate), NoDay before
    games,          \* per player: the days with a game so far
    moves,          \* the days so far whose rosters differ from the day before
    unmoved         \* per team: every roster fetched so far holds the players
                    \* of the previous Sunday's roster

tvars == <<df, matchupScore, matchupWinner, tally, maxStatDF, minStatDF, tpc>>
ovars == <<oauthExt, refresh, oauthFile, oauthKeys, newKeys, opc, fileAtCall>>

wvars == <<dateDiff, dIdx, previousSunday, rosterTotals, currentRoster, playerStats,
           adds, addedPlayerStats, improvement, worsened, playerBoost, wpc,
           played, weekEnd, games, moves, unmoved>>

vars == <<tvars, ovars, wvars>>

\* ------------------------------------------------------------------ text
Digits == <<"0", "1", "2", "3", "4", "5", "6", "7", "8", "9">>

RECURSIVE IntStr(_)
\* str(n) of a natural, as the f-string formats it
IntStr(n) == IF n < 10 THEN <<Digits[n + 1]>>
             ELSE IntStr(n \div 10) \o <<Digits[(n % 10) + 1]>>

\* characters for which str.isalnum() holds, among those the model uses
AlnumChars == {Digits[k] : k \in 1..10} \cup {"m", "t", "N", "A"}

\* the code points' order of the characters the model uses
CharOrder == <<" ", "#", "-", ".", "/", "0", "1", "2", "3", "4", "5", "6", "7",
               "8", "9", "A", "N", "m", "t">>

Ord(ch) == CHOOSE k \in 1..Len(CharOrder) : CharOrder[k] = ch

RECURSIVE StrLess(_, _)
\* a < b on python strings
StrLess(a, b) ==
    IF b = <<>> THEN FALSE
    ELSE IF a = <<>> THEN TRUE
    ELSE IF Ord(Head(a)) # Ord(Head(b)) THEN Ord(Head(a)) < Ord(Head(b))
    ELSE StrLess(Tail(a), Tail(b))

RECURSIVE KeepNameChars(_)
\* the inner loops of fix_names_teams: keep alphanumerics, ' ' and '-'
KeepNameChars(s) ==
    IF s = <<>> THEN <<>>
    ELSE (IF Head(s) \in AlnumChars \/ Head(s) = " " \/ Head(s) = "-"
          THEN <<Head(s)>> ELSE <<>>) \o KeepNameChars(Tail(s))

RECURSIVE JoinComma(_)
\* ', '.join(list)
JoinComma(l) ==
    IF l = <<>> THEN <<>>
    ELSE IF Len(l) = 1 THEN l[1]
    ELSE l[1] \o <<",", " ">> \o JoinComma(Tail(l))

\* ------------------------------------------------------------------ rows
StatCats == 1..NumCats
\* statCats[:-1] and statCats[-1]
nonTOs == 1..(NumCats - 1)
TOs == NumCats

Vals == 0..MaxVal

\* the nickname the API reports for the manager of row i: not in row order,
\* and with characters fix_names_teams removes
Nickname(i) == <<"m", "#">> \o IntStr(NumTeams + 1 - i)
TeamTitle(i) == <<"t", ".", " ">> \o IntStr(i)

\* one row of the dataframe, as extract_matchup_scores labels it; idx is the
\* row's index label
TeamRow(i, stats, fg, ft) ==
    [idx |-> i, stats |-> stats,
     FGM |-> fg[1], FGA |-> fg[2], FTM |-> ft[1], FTA |-> ft[2],
     manager |-> Nickname(i), teamName |-> TeamTitle(i),
     matchupNumber |-> (i - 1) \div 2]

\* df.loc[i]: the row labelled i
Loc(d, i) == d[CHOOSE k \in 1..Len(d) : d[k].idx = i]

NoMatrix == <<>>
NoTable == <<>>

\* ------------------------------------------- create_matchup_comparison
\* matchupWinner's floats in halves: 1, 0, .5 and the diagonal's -1
Win == 2
Loss == 0
Tie == 1
NotPlayed == -2

RECURSIVE ScoreNonTOs_AllCats(_, _, _, _)
\* a plausible slip: the first loop runs over statCats instead of statCats[:-1]
ScoreNonTOs_AllCats(curTeam, vsTeam, k, score) ==
    IF k \notin StatCats THEN score
    ELSE ScoreNonTOs_AllCats(curTeam, vsTeam, k + 1,
            IF curTeam.stats[k] > vsTeam.stats[k]
                THEN [score EXCEPT !.curScore = @ + 1]
            ELSE IF curTeam.stats[k] < vsTeam.stats[k]
                THEN [score EXCEPT !.vsScore = @ + 1]
            ELSE [score EXCEPT !.tieScore = @ + 1])

RECURSIVE ScoreNonTOs(_, _, _, _)
\* for cat in nonTOs, from the k-th on: higher value wins the category
ScoreNonTOs(curTeam, vsTeam, k, score) ==
    IF k \notin nonTOs THEN score
    ELSE ScoreNonTOs(curTeam, vsTeam, k + 1,
            IF curTeam.stats[k] > vsTeam.stats[k]
                THEN [score EXCEPT !.curScore = @ + 1]
            ELSE IF curTeam.stats[k] < vsTeam.stats[k]
                THEN [score EXCEPT !.vsScore = @ + 1]
            ELSE [score EXCEPT !.tieScore = @ + 1])

\* a plausible slip: turnovers scored like every other category
ScoreTOs_HigherWins(curTeam, vsTeam, score) ==
    IF curTeam.stats[TOs] > vsTeam.stats[TOs]
        THEN [score EXCEPT !.curScore = @ + 1]
    ELSE IF curTeam.stats[TOs] < vsTeam.stats[TOs]
        THEN [score EXCEPT !.vsScore = @ + 1]
    ELSE [score EXCEPT !.tieScore = @ + 1]

\* the turnover category: lower value wins
ScoreTOs(curTeam, vsTeam, score) ==
    IF curTeam.stats[TOs] < vsTeam.stats[TOs]
        THEN [score EXCEPT !.curScore = @ + 1]
    ELSE IF curTeam.stats[TOs] > vsTeam.stats[TOs]
        THEN [score EXCEPT !.vsScore = @ + 1]
    ELSE [score EXCEPT !.tieScore = @ + 1]

\* the body of the inner loop up to the counters
CompareRows(curTeam, vsTeam) ==
    ScoreTOs(curTeam, vsTeam,
             ScoreNonTOs(curTeam, vsTeam, 1,
                         [curScore |-> 0, vsScore |-> 0, tieScore |-> 0]))

\* a plausible slip: the tie count always written
ScoreText_AlwaysTies(score) ==
    IntStr(score.curScore) \o <<"-">> \o IntStr(score.vsScore)
    \o <<"-">> \o IntStr(score.tieScore)

\* the f-strings of the matchup score
ScoreText(score) ==
    IF score.tieScore > 0
        THEN IntStr(score.curScore) \o <<"-">> \o IntStr(score.vsScore)
             \o <<"-">> \o IntStr(score.tieScore)
    ELSE IntStr(score.curScore) \o <<"-">> \o IntStr(score.vsScore)

WinnerOf(score) ==
    IF score.curScore > score.vsScore THEN Win
    ELSE IF score.vsScore > score.curScore THEN Loss
    ELSE Tie

RECURSIVE RowSum(_, _)
\* sum(axis=1) of one row, given as a sequence
RowSum(row, n) == IF n = 0 THEN 0 ELSE row[n] + RowSum(row, n - 1)

\* matchupWinner[idxs] = x
SetDiagonal(m, x) ==
    [i \in DOMAIN m |-> [j \in DOMAIN m[i] |-> IF i = j THEN x ELSE m[i][j]]]

\* copy; copy[copy != 1] = 0; sum(axis=1)
TotalWins(m, i) ==
    RowSum([j \in DOMAIN m[i] |-> IF m[i][j] # Win THEN 0 ELSE 1], Len(m[i]))

\* a plausible slip: the team's own diagonal zero counted as a loss
TotalLosses_WithSelf(m, i) ==
    RowSum([j \in DOMAIN m[i] |-> 1 - (IF m[i][j] # Loss THEN 1 ELSE 0)], Len(m[i]))

\* copy; copy[copy != 0] = 1; (1 - copy).sum(axis=1) - 1
TotalLosses(m, i) ==
    RowSum([j \in DOMAIN m[i] |-> 1 - (IF m[i][j] # Loss THEN 1 ELSE 0)], Len(m[i])) - 1

\* copy; copy[copy != .5] = 0; copy[copy == .5] = 1; sum(axis=1)
TotalTies(m, i) ==
    RowSum([j \in DOMAIN m[i] |-> IF m[i][j] # Tie THEN 0 ELSE 1], Len(m[i]))

\* fix_names_teams on one row
FixNames(row) ==
    [row EXCEPT !.manager = KeepNameChars(@), !.teamName = KeepNameChars(@)]

CreateMatchupComparison ==
    /\ tpc = "extracted"
    /\ LET n == Len(df)
           winner == [i \in 1..n |-> [j \in 1..n |-> WinnerOf(tally'[i][j])]]
           zeroed == SetDiagonal(winner, 0)
       IN /\ tally' = [i \in 1..n |-> [j \in 1..n |-> CompareRows(Loc(df, i), Loc(df, j))]]
          /\ matchupScore' =
                SetDiagonal([i \in 1..n |-> [j \in 1..n |-> ScoreText(tally'[i][j])]],
                            <<"N", "/", "A">>)
          /\ matchupWinner' = SetDiagonal(zeroed, NotPlayed)
          /\ df' = [k \in 1..n |->
                       FixNames([totalWins |-> TotalWins(zeroed, k),
                                 totalLosses |-> TotalLosses(zeroed, k),
                                 totalTies |-> TotalTies(zeroed, k)] @@ df[k])]
    /\ tpc' = "compared"
    /\ UNCHANGED <<maxStatDF, minStatDF>>
    /\ UNCHANGED <<ovars, wvars>>

\* ------------------------------------------------------- max_min_stats
\* statCats = origStatCats + ['FGM', 'FGA', 'FTM', 'FTA'], by position
MaxMinCats == 1..(NumCats + 4)

\* df[stat] of one row
Col(row, k) ==
    IF k \in StatCats THEN row.stats[k]
    ELSE IF k = NumCats + 1 THEN row.FGM
    ELSE IF k = NumCats + 2 THEN row.FGA
    ELSE IF k = NumCats + 3 THEN row.FTM
    ELSE row.FTA

RECURSIVE ColMax(_, _, _)
\* df[stat].max() over the first n rows
ColMax(d, k, n) ==
    IF n = 1 THEN Col(d[1], k)
    ELSE LET m == ColMax(d, k, n - 1)
         IN IF Col(d[n], k) > m THEN Col(d[n], k) ELSE m

RECURSIVE ColMin(_, _, _)
\* df[stat].min() over the first n rows
ColMin(d, k, n) ==
    IF n = 1 THEN Col(d[1], k)
    ELSE LET m == ColMin(d, k, n - 1)
         IN IF Col(d[n], k) < m THEN Col(d[n], k) ELSE m

RECURSIVE ManagersWith_First(_, _, _)
\* a plausible slip: only the first row holding the value (as idxmax would)
ManagersWith_First(d, k, val) ==
    IF d = <<>> THEN <<>>
    ELSE IF Col(Head(d), k) = val THEN <<Head(d).manager>>
    ELSE ManagersWith_First(Tail(d), k, val)

RECURSIVE ManagersWith(_, _, _)
\* df.loc[df[stat]==val, 'manager'].to_list()
ManagersWith(d, k, val) ==
    IF d = <<>> THEN <<>>
    ELSE (IF Col(Head(d), k) = val THEN <<Head(d).manager>> ELSE <<>>)
         \o ManagersWith(Tail(d), k, val)

\* one entry of maxStatList / minStatList
StatEntry(d, k, val) ==
    [Stat |-> k, Value |-> val, Managers |-> JoinComma(ManagersWith(d, k, val))]

MaxStatList(d) == [k \in MaxMinCats |-> StatEntry(d, k, ColMax(d, k, Len(d)))]
MinStatList(d) == [k \in MaxMinCats |-> StatEntry(d, k, ColMin(d, k, Len(d)))]

RECURSIVE InsertByManager(_, _)
InsertByManager(sorted, row) ==
    IF sorted = <<>> THEN <<row>>
    ELSE IF StrLess(row.manager, Head(sorted).manager) THEN <<row>> \o sorted
    ELSE <<Head(sorted)>> \o InsertByManager(Tail(sorted), row)

RECURSIVE SortByManager(_)
\* df.sort_values(by = 'manager', inplace = True), the last of the sorts
\* of the visualize branch; the index labels move with their rows
SortByManager(d) ==
    IF d = <<>> THEN <<>>
    ELSE InsertByManager(SortByManager(Tail(d)), Head(d))

MaxMinStats ==
    /\ tpc = "compared"
    /\ maxStatDF' = MaxStatList(df)
    /\ minStatDF' = MinStatList(df)
    /\ \E visualize \in BOOLEAN :
           df' = IF visualize THEN SortByManager(df) ELSE df
    /\ tpc' = "summarised"
    /\ UNCHANGED <<matchupScore, matchupWinner, tally>>
    /\ UNCHANGED <<ovars, wvars>>

\* ---------------------------------------------------- refresh_oauth_file
NoFile == [format |-> "absent", data |-> <<>>]
NoKeys == <<>>

\* the keys a credentials file may hold, each with the value it holds
FileKeys == {"consumer_key", "consumer_secret", "access_token", "refresh_token"}
KeyValue(k) ==
    CASE k = "consumer_key" -> "ck"
      [] k = "consumer_secret" -> "cs"
      [] k = "access_token" -> "at"
      [] OTHER -> "rt"

\* the extensions the file name may have
Extensions == {".json", ".yaml", ".yml", ".txt", ""}

\* the file's dictionary restricted to a set of keys
DictOf(keys) == [k \in keys |-> KeyValue(k)]

\* the consumer keys a user's file may hold
ConsumerKeys == {"ck", "ck2"}

\* a plausible slip: whatever is not '.json' is read as yaml
LoadKeys_YamlByDefault ==
    /\ opc = "call"
    /\ refresh
    /\ oauthKeys' = oauthFile.data
    /\ opc' = "loaded"
    /\ UNCHANGED <<oauthExt, refresh, oauthFile, newKeys, fileAtCall>>
    /\ UNCHANGED <<tvars, wvars>>

\* if refresh: ext = splitext; load by extension or raise ValueError
LoadKeys ==
    /\ opc = "call"
    /\ refresh
    /\ IF oauthExt = ".json" \/ oauthExt = ".yaml"
          THEN /\ oauthKeys' = oauthFile.data
               /\ opc' = "loaded"
          ELSE /\ oauthKeys' = oauthKeys
               /\ opc' = "ValueError"
    /\ UNCHANGED <<oauthExt, refresh, oauthFile, newKeys, fileAtCall>>
    /\ UNCHANGED <<tvars, wvars>>

\* a plausible slip: the file is removed before the keys are read from the
\* loaded dictionary
PickKeys_RemovesFirst ==
    /\ opc = "loaded"
    /\ oauthFile' = NoFile
    /\ IF "consumer_key" \in DOMAIN oauthKeys /\ "consumer_secret" \in DOMAIN oauthKeys
          THEN /\ newKeys' = [k \in {"consumer_key", "consumer_secret"} |-> oauthKeys[k]]
               /\ opc' = "picked"
          ELSE /\ newKeys' = [k \in {"consumer_key"} \cap DOMAIN oauthKeys |-> oauthKeys[k]]
               /\ opc' = "KeyError"
    /\ UNCHANGED <<oauthExt, refresh, oauthKeys, fileAtCall>>
    /\ UNCHANGED <<tvars, wvars>>

\* newKeys = {consumer_key, consumer_secret} of the loaded dictionary
PickKeys ==
    /\ opc = "loaded"
    /\ IF "consumer_key" \in DOMAIN oauthKeys /\ "consumer_secret" \in DOMAIN oauthKeys
          THEN /\ newKeys' = [k \in {"consumer_key", "consumer_secret"} |-> oauthKeys[k]]
               /\ opc' = "picked"
          ELSE /\ newKeys' = [k \in {"consumer_key"} \cap DOMAIN oauthKeys |-> oauthKeys[k]]
               /\ opc' = "KeyError"
    /\ UNCHANGED <<oauthExt, refresh, oauthFile, oauthKeys, fileAtCall>>
    /\ UNCHANGED <<tvars, wvars>>

\* os.remove(oauthFile)
RemoveFile ==
    /\ opc = "picked"
    /\ oauthFile' = NoFile
    /\ opc' = "removed"
    /\ UNCHANGED <<oauthExt, refresh, oauthKeys, newKeys, fileAtCall>>
    /\ UNCHANGED <<tvars, wvars>>

\* a plausible slip: the loaded dictionary is written back, not newKeys
WriteKeys_LoadedKeys ==
    /\ opc = "removed"
    /\ oauthFile' = [format |-> IF oauthExt = ".json" THEN "json" ELSE "yaml",
                     data |-> oauthKeys]
    /\ opc' = "written"
    /\ UNCHANGED <<oauthExt, refresh, oauthKeys, newKeys, fileAtCall>>
    /\ UNCHANGED <<tvars, wvars>>

\* json.dump or yaml.dump of newKeys to the file
WriteKeys ==
    /\ opc = "removed"
    /\ oauthFile' = [format |-> IF oauthExt = ".json" THEN "json" ELSE "yaml",
                     data |-> newKeys]
    /\ opc' = "written"
    /\ UNCHANGED <<oauthExt, refresh, oauthKeys, newKeys, fileAtCall>>
    /\ UNCHANGED <<tvars, wvars>>

\* OAuth2(None, None, from_file=oauthFile) and the league lookup: the
\* yahoo_oauth library reads the file, may store its tokens in it, and either
\* returns a session or raises an error of its own
Authenticate ==
    /\ \/ opc = "call" /\ ~refresh
       \/ opc = "written"
    /\ \/ /\ opc' = "returned"
          /\ \E tokens \in SUBSET {"access_token", "refresh_token"} :
                oauthFile' = [oauthFile EXCEPT !.data = DictOf(tokens) @@ @]
       \/ /\ opc' = "LibraryError"
          /\ oauthFile' = oauthFile
    /\ UNCHANGED <<oauthExt, refresh, oauthKeys, newKeys, fileAtCall>>
    /\ UNCHANGED <<tvars, wvars>>

NextOauth == LoadKeys \/ PickKeys \/ RemoveFile \/ WriteKeys \/ Authenticate

\* refresh_oauth_file not called
OauthIdle ==
    /\ oauthExt = ""
    /\ refresh = FALSE
    /\ oauthFile = NoFile
    /\ oauthKeys = NoKeys
    /\ newKeys = NoKeys
    /\ opc = "idle"
    /\ fileAtCall = NoFile

\* ------------------------------------------------ the walk of the week
\* the league's stat categories: the walk compares each stat line with ['-']*9
LeagueCats == 9
WalkCats == 1..LeagueCats
\* the '-' the API reports for a stat that was not recorded
Dash == -1
\* the day index on which the dropped players are marked
DropDay == 6

WalkTeams == 1..NumWalkTeams
Players == 1..NumPlayers

\* the stat lines the API may report for a player and a day: no game (all
\* '-'), or a game in which every category is v, the two percentages
\* reported as '-' when v is 0
NoGameLine == [c \in WalkCats |-> Dash]
GameLine(v) == [c \in WalkCats |-> IF v = 0 /\ c <= 2 THEN Dash ELSE v]
RawLines == {NoGameLine} \cup {GameLine(v) : v \in 0..MaxStat}

ZeroLine == [c \in WalkCats |-> 0]
AddLines(a, b) == [c \in WalkCats |-> a[c] + b[c]]
\* playerStats.replace('-', value = 0)
ReplaceDash(line) == [c \in WalkCats |-> IF line[c] = Dash THEN 0 ELSE line[c]]

\* the rosters the API may report for one day: every team has players, and
\* no player is on two teams
Rosters ==
    {r \in [WalkTeams -> (SUBSET Players) \ {{}}] :
        \A t \in WalkTeams, u \in WalkTeams : t # u => r[t] \cap r[u] = {}}

\* the walked dates: range(dateDiff.days + 2)
NumDates == dateDiff + 2

NoDay == <<>>

\* the player ids whose stats are asked for
StartedPlayerIDs(roster) ==
    UNION {roster[t] \cup DOMAIN previousSunday[t] : t \in WalkTeams}

\* the players who had a game: not every entry '-', and '-' replaced by 0
WithGames(raw) ==
    [p \in {q \in DOMAIN raw : raw[q] # NoGameLine} |-> ReplaceDash(raw[p])]

\* if dIdx==0: the first roster becomes rosterTotals, stats 0, flags False
FirstTotals(roster) ==
    [t \in WalkTeams |->
        [p \in roster[t] |-> [stats |-> ZeroLine, dropped |-> FALSE, added |-> FALSE]]]

\* a plausible slip: the appended row not flagged
AddedRow_NotFlagged(line) == [stats |-> line, dropped |-> FALSE, added |-> FALSE]

\* the row appended for a player added this week
AddedRow(line) == [stats |-> line, dropped |-> FALSE, added |-> TRUE]

\* a plausible slip: a player's games counted on days the player is not on
\* the day's roster
Accumulate_IgnoresRoster(totals, roster, stats) ==
    [t \in WalkTeams |->
        LET currentPlayers == DOMAIN stats \cap roster[t]
        IN [p \in DOMAIN totals[t] \cup currentPlayers |->
               IF p \notin DOMAIN totals[t] THEN AddedRow(stats[p])
               ELSE IF p \in DOMAIN stats
                   THEN [totals[t][p] EXCEPT !.stats = AddLines(@, stats[p])]
               ELSE totals[t][p]]]

\* for pID in currentPlayers: append a row, or add to the player's row
Accumulate(totals, roster, stats) ==
    [t \in WalkTeams |->
        LET currentPlayers == DOMAIN stats \cap roster[t]
        IN [p \in DOMAIN totals[t] \cup currentPlayers |->
               IF p \notin DOMAIN totals[t] THEN AddedRow(stats[p])
               ELSE IF p \in currentPlayers
                   THEN [totals[t][p] EXCEPT !.stats = AddLines(@, stats[p])]
               ELSE totals[t][p]]]

\* a plausible slip: the day's stats assigned to the previous Sunday's row,
\* '=' for '+='
AccumulatePrevious_Assigns(prev, stats) ==
    [t \in WalkTeams |->
        [p \in DOMAIN prev[t] |->
            IF p \in DOMAIN stats THEN stats[p] ELSE prev[t][p]]]

\* for pID in previousPlayers: add to the previous Sunday's row
AccumulatePrevious(prev, stats) ==
    [t \in WalkTeams |->
        [p \in DOMAIN prev[t] |->
            IF p \in DOMAIN stats THEN AddLines(prev[t][p], stats[p]) ELSE prev[t][p]]]

\* if dIdx==6: the rows of rosterTotals not on the current roster are dropped
MarkDropped(totals, roster, d) ==
    IF d = DropDay
        THEN [t \in WalkTeams |->
                [p \in DOMAIN totals[t] |->
                    IF p \notin roster[t] THEN [totals[t][p] EXCEPT !.dropped = TRUE]
                    ELSE totals[t][p]]]
    ELSE totals

\* the rosters of the day before the one fetched next
LastRosters ==
    IF dIdx = 0 THEN [t \in WalkTeams |-> DOMAIN previousSunday[t]] ELSE currentRoster

\* one iteration of the loop over dateRanges; the week holds at most MaxMoves
\* days with a roster move and at most MaxGames games of a player
WalkDay ==
    /\ wpc = "walk"
    /\ dIdx < NumDates
    /\ \E roster \in Rosters :
       \E raw \in [StartedPlayerIDs(roster) -> RawLines] :
          LET stats == WithGames(raw)
              moved == IF roster = LastRosters THEN 0 ELSE 1
              before == IF dIdx = 0 THEN FirstTotals(roster) ELSE rosterTotals
              after == MarkDropped(Accumulate(before, roster, stats), roster, dIdx)
          IN /\ moves + moved <= MaxMoves
             /\ \A p \in DOMAIN stats : games[p] < MaxGames
             /\ moves' = moves + moved
             /\ unmoved' = [t \in WalkTeams |->
                               unmoved[t] /\ roster[t] = DOMAIN previousSunday[t]]
             /\ games' = [p \in Players |-> games[p] + (IF p \in DOMAIN stats THEN 1 ELSE 0)]
             /\ currentRoster' = roster
             /\ playerStats' = stats
             /\ rosterTotals' = after
             /\ previousSunday' = AccumulatePrevious(previousSunday, stats)
             /\ played' = [t \in WalkTeams |-> [p \in Players |->
                              IF p \in roster[t] /\ raw[p] # NoGameLine
                                  THEN AddLines(played[t][p], ReplaceDash(raw[p]))
                              ELSE played[t][p]]]
             /\ weekEnd' = IF dIdx = dateDiff
                               THEN [roster |-> roster,
                                     rows |-> [t \in WalkTeams |-> DOMAIN after[t]]]
                           ELSE weekEnd
    /\ dIdx' = dIdx + 1
    /\ wpc' = IF dIdx + 1 = NumDates THEN "walked" ELSE "walk"
    /\ UNCHANGED <<dateDiff, adds, addedPlayerStats, improvement, worsened, playerBoost>>
    /\ UNCHANGED <<tvars, ovars>>

\* countingStats = statCats[2:], turnovers last
CountingStats == 3..LeagueCats
ZeroCounting == [c \in CountingStats |-> 0]

\* the matchup differences the week's table may hold for a team
WeekDiffs == {[c \in CountingStats |-> v] : v \in (0 - MaxStat)..MaxStat}

RECURSIVE ColumnSum(_, _)
\* roster[countingStats].sum(): per counting category, the sum over the rows
ColumnSum(rows, ids) ==
    IF ids = {} THEN ZeroCounting
    ELSE LET p == CHOOSE q \in ids : TRUE
             rest == ColumnSum(rows, ids \ {p})
         IN [c \in CountingStats |-> rows[p][c] + rest[c]]

\* currentRoster[countingStats].sum() - oldRoster[countingStats].sum()
AddedPlayerStats(totals, old) ==
    LET cur == ColumnSum([p \in DOMAIN totals |-> totals[p].stats], DOMAIN totals)
        prev == ColumnSum(old, DOMAIN old)
    IN [c \in CountingStats |-> cur[c] - prev[c]]

\* the boost of one category: <<>> stands for the '-' entry
PlayerBoost(added, weekDiff, c) ==
    IF c = LeagueCats
        THEN IF weekDiff[c] > added[c] THEN <<>> ELSE <<added[c] - weekDiff[c]>>
    ELSE IF weekDiff[c] < 0 THEN <<>> ELSE <<added[c] - weekDiff[c]>>

\* sum(non-TO columns > 0) + int(TO column < 0)
Improvement(added) ==
    Cardinality({c \in CountingStats \ {LeagueCats} : added[c] > 0})
        + (IF added[LeagueCats] < 0 THEN 1 ELSE 0)

\* sum(non-TO columns < 0) + int(TO column > 0)
Worsened(added) ==
    Cardinality({c \in CountingStats \ {LeagueCats} : added[c] < 0})
        + (IF added[LeagueCats] > 0 THEN 1 ELSE 0)

\* after the loop, for every team: adds, the value added per counting
\* category, the boost against the matchup difference, and the counts of
\* improved and worsened categories
ComputeAdds ==
    /\ wpc = "walked"
    /\ adds' = [t \in WalkTeams |->
                  Cardinality({p \in DOMAIN rosterTotals[t] : rosterTotals[t][p].added})]
    /\ addedPlayerStats' = [t \in WalkTeams |->
                               AddedPlayerStats(rosterTotals[t], previousSunday[t])]
    /\ \E weekTotalsDifference \in [WalkTeams -> WeekDiffs] :
          playerBoost' = [t \in WalkTeams |-> [c \in CountingStats |->
                             PlayerBoost(addedPlayerStats'[t], weekTotalsDifference[t], c)]]
    /\ improvement' = [t \in WalkTeams |-> Improvement(addedPlayerStats'[t])]
    /\ worsened' = [t \in WalkTeams |-> Worsened(addedPlayerStats'[t])]
    /\ wpc' = "totalled"
    /\ UNCHANGED <<dateDiff, dIdx, previousSunday, rosterTotals, currentRoster,
                   playerStats, played, weekEnd, games, moves, unmoved>>
    /\ UNCHANGED <<tvars, ovars>>

\* the main script not run
WalkIdle ==
    /\ dateDiff = 0
    /\ dIdx = 0
    /\ previousSunday = <<>>
    /\ rosterTotals = <<>>
    /\ currentRoster = <<>>
    /\ playerStats = <<>>
    /\ adds = <<>>
    /\ addedPlayerStats = <<>>
    /\ improvement = <<>>
    /\ worsened = <<>>
    /\ playerBoost = <<>>
    /\ wpc = "idle"
    /\ played = <<>>
    /\ weekEnd = NoDay
    /\ games = <<>>
    /\ moves = 0
    /\ unmoved = <<>>

\* ------------------------------------------------- the dataframe's inputs
\* extract_matchup_scores: one row per team
InitTable(d) ==
    /\ df = d
    /\ matchupScore = NoMatrix
    /\ matchupWinner = NoMatrix
    /\ tally = NoMatrix
    /\ maxStatDF = NoTable
    /\ minStatDF = NoTable
    /\ tpc = "extracted"
    /\ OauthIdle
    /\ WalkIdle

\* every table of stat categories, the shot counts left at 0
InitMatchup ==
    \E st \in [1..NumTeams -> [StatCats -> Vals]] :
        InitTable([i \in 1..NumTeams |-> TeamRow(i, st[i], <<0, 0>>, <<0, 0>>)])

\* every table in which at most two of the columns max_min_stats reads are
\* not all 0
InitMaxMin ==
    \E k1 \in MaxMinCats, k2 \in MaxMinCats :
    \E a \in [1..NumTeams -> Vals], b \in [1..NumTeams -> Vals] :
        LET cell(i, c) == IF c = k1 THEN a[i] ELSE IF c = k2 THEN b[i] ELSE 0
        IN /\ k1 < k2
           /\ InitTable([i \in 1..NumTeams |->
                    TeamRow(i, [c \in StatCats |-> cell(i, c)],
                            <<cell(i, NumCats + 1), cell(i, NumCats + 2)>>,
                            <<cell(i, NumCats + 3), cell(i, NumCats + 4)>>)])

\* the dataframe pipeline not run
TableIdle ==
    /\ df = <<>>
    /\ matchupScore = NoMatrix
    /\ matchupWinner = NoMatrix
    /\ tally = NoMatrix
    /\ maxStatDF = NoTable
    /\ minStatDF = NoTable
    /\ tpc = "idle"

NextTable == CreateMatchupComparison \/ MaxMinStats

SpecMatchup == InitMatchup /\ [][NextTable]_vars
SpecMaxMin == InitMaxMin /\ [][NextTable]_vars

\* a call of refresh_oauth_file: any extension, any flag, a file in either
\* format with any of the keys
InitOauth ==
    /\ oauthExt \in Extensions
    /\ refresh \in BOOLEAN
    /\ \E keys \in SUBSET FileKeys, fmt \in {"json", "yaml"}, ck \in ConsumerKeys :
          /\ oauthExt = ".json" => fmt = "json"
          /\ oauthExt = ".yaml" => fmt = "yaml"
          /\ oauthFile = [format |-> fmt,
                          data |-> [k \in keys |-> IF k = "consumer_key" THEN ck ELSE KeyValue(k)]]
    /\ fileAtCall = oauthFile
    /\ oauthKeys = NoKeys
    /\ newKeys = NoKeys
    /\ opc = "call"
    /\ TableIdle
    /\ WalkIdle

SpecOauth == InitOauth /\ [][NextOauth]_vars

\* the main script before the loop: a week of MaxDateDiff or one day fewer,
\* the previous Sunday's rosters with their stat columns at 0
Init ==
    /\ dateDiff \in (MaxDateDiff - 1)..MaxDateDiff
    /\ dIdx = 0
    /\ \E roster \in Rosters :
          previousSunday = [t \in WalkTeams |-> [p \in roster[t] |-> ZeroLine]]
    /\ rosterTotals = <<>>
    /\ currentRoster = <<>>
    /\ playerStats = <<>>
    /\ adds = [t \in WalkTeams |-> 0]
    /\ addedPlayerStats = [t \in WalkTeams |-> ZeroCounting]
    /\ improvement = [t \in WalkTeams |-> 0]
    /\ worsened = [t \in WalkTeams |-> 0]
    /\ playerBoost = <<>>
    /\ wpc = "walk"
    /\ played = [t \in WalkTeams |-> [p \in Players |-> ZeroLine]]
    /\ weekEnd = NoDay
    /\ games = [p \in Players |-> 0]
    /\ moves = 0
    /\ unmoved = [t \in WalkTeams |-> TRUE]
    /\ TableIdle
    /\ OauthIdle

Next == WalkDay \/ ComputeAdds

Spec == Init /\ [][Next]_vars

\* ------------------------------------------------ claims on the dataframe
\* the categories row i wins, loses and ties against row j
WonCats(i, j) ==
    {c \in StatCats : IF c = NumCats THEN Loc(df, i).stats[c] < Loc(df, j).stats[c]
                                      ELSE Loc(df, i).stats[c] > Loc(df, j).stats[c]}
LostCats(i, j) ==
    {c \in StatCats : IF c = NumCats THEN Loc(df, i).stats[c] > Loc(df, j).stats[c]
                                      ELSE Loc(df, i).stats[c] < Loc(df, j).stats[c]}
TiedCats(i, j) == {c \in StatCats : Loc(df, i).stats[c] = Loc(df, j).stats[c]}
Compared == tpc \in {"compared", "summarised"}
Rows == 1..Len(df)

\* C1: for every ordered pair of rows, the diagonal included, the three
\* counters add up to the number of categories, every category counted in
\* exactly one of them
C1_CountersCoverCategories ==
    Compared =>
        \A i \in Rows, j \in Rows :
            /\ tally[i][j].curScore + tally[i][j].vsScore + tally[i][j].tieScore
                 = Cardinality(nonTOs) + 1
            /\ \A c \in StatCats :
                  Cardinality({s \in {WonCats(i, j), LostCats(i, j), TiedCats(i, j)} : c \in s}) = 1
            /\ tally[i][j].curScore = Cardinality(WonCats(i, j))
            /\ tally[i][j].vsScore = Cardinality(LostCats(i, j))
            /\ tally[i][j].tieScore = Cardinality(TiedCats(i, j))

C1_Witness ==
    /\ tpc = "compared"
    /\ tally[1][1].tieScore = NumCats
    /\ \E i \in Rows, j \in Rows :
          /\ i # j
          /\ tally[i][j].curScore > 0
          /\ tally[i][j].tieScore > 0

\* C2: off the diagonal the score text is 'W-L-T' when there are ties and
\* 'W-L' when there are none, W, L, T the pair's win, loss and tie counts;
\* on the diagonal it is 'N/A'
C2_ScoreTextMatchesCounts ==
    Compared =>
        \A i \in Rows, j \in Rows :
            LET W == IntStr(Cardinality(WonCats(i, j)))
                L == IntStr(Cardinality(LostCats(i, j)))
                T == IntStr(Cardinality(TiedCats(i, j)))
            IN matchupScore[i][j] =
                 IF i = j THEN <<"N", "/", "A">>
                 ELSE IF TiedCats(i, j) # {} THEN W \o <<"-">> \o L \o <<"-">> \o T
                 ELSE W \o <<"-">> \o L

C2_Witness ==
    /\ tpc = "compared"
    /\ \E i \in Rows, j \in Rows : i # j /\ TiedCats(i, j) = {} /\ Len(matchupScore[i][j]) = 3
    /\ \E i \in Rows, j \in Rows : i # j /\ TiedCats(i, j) # {} /\ Len(matchupScore[i][j]) = 5

\* C7: a category goes to the higher value, the last one (turnovers) to the
\* lower, equal values tie; off the diagonal the winner entry is 1, 0 or .5
\* as row i won more, fewer or as many categories as row j; the diagonal is -1
C7_WinnerFollowsCategoryRule ==
    Compared =>
        \A i \in Rows, j \in Rows :
            LET cur == Loc(df, i).stats
                vs == Loc(df, j).stats
                won == Cardinality({c \in nonTOs : cur[c] > vs[c]})
                         + (IF cur[TOs] < vs[TOs] THEN 1 ELSE 0)
                lost == Cardinality({c \in nonTOs : cur[c] < vs[c]})
                          + (IF cur[TOs] > vs[TOs] THEN 1 ELSE 0)
            IN /\ tally[i][j] = [curScore |-> won, vsScore |-> lost,
                                 tieScore |-> Cardinality({c \in StatCats : cur[c] = vs[c]})]
               /\ matchupWinner[i][j] =
                    IF i = j THEN NotPlayed
                    ELSE IF won > lost THEN Win
                    ELSE IF won < lost THEN Loss
                    ELSE Tie

C7_Witness ==
    /\ tpc = "compared"
    /\ \E i \in Rows, j \in Rows :
          /\ i # j
          /\ Loc(df, i).stats[TOs] < Loc(df, j).stats[TOs]
          /\ WonCats(i, j) = {TOs}
          /\ matchupWinner[i][j] = Win
          /\ matchupWinner[j][i] = Loss
    /\ \E i \in Rows, j \in Rows : i # j /\ matchupWinner[i][j] = Tie

\* the opponents of row i against which its winner entry is x
Opponents(i, x) == {j \in Rows \ {i} : matchupWinner[i][j] = x}

\* C8: a row's totalWins, totalLosses and totalTies count its opponents with
\* winner entry 1, 0 and .5; the row itself is in none, so they add up to N - 1
C8_TotalsCountOpponents ==
    Compared =>
        \A k \in Rows :
            /\ df[k].totalWins = Cardinality(Opponents(df[k].idx, Win))
            /\ df[k].totalLosses = Cardinality(Opponents(df[k].idx, Loss))
            /\ df[k].totalTies = Cardinality(Opponents(df[k].idx, Tie))
            /\ df[k].totalWins + df[k].totalLosses + df[k].totalTies = Len(df) - 1

C8_Witness ==
    /\ tpc = "compared"
    /\ \E k \in Rows : df[k].totalWins > 0 /\ df[k].totalTies > 0
    /\ \E k \in Rows : df[k].totalLosses = Len(df) - 1

\* the managers of the rows whose column k holds v, in the order of the rows
\* max_min_stats was given (the order of the index labels)
HoldersOf(k, v) ==
    LET byLabel == [i \in Rows |-> Loc(df, i)]
        holders == SelectSeq(byLabel, LAMBDA r : Col(r, k) = v)
    IN [n \in 1..Len(holders) |-> holders[n].manager]

\* C3: for every category and the four shot counts, maxStatDF reports the
\* column's largest value and minStatDF its smallest, each with the managers
\* of exactly the rows holding that value, in row order
C3_ExtremesAndTheirManagers ==
    tpc = "summarised" =>
        /\ Len(maxStatDF) = NumCats + 4
        /\ Len(minStatDF) = NumCats + 4
        /\ \A k \in MaxMinCats :
              /\ maxStatDF[k].Stat = k
              /\ minStatDF[k].Stat = k
              /\ \A i \in Rows : /\ Col(df[i], k) <= maxStatDF[k].Value
                                 /\ Col(df[i], k) >= minStatDF[k].Value
              /\ \E i \in Rows : Col(df[i], k) = maxStatDF[k].Value
              /\ \E i \in Rows : Col(df[i], k) = minStatDF[k].Value
              /\ maxStatDF[k].Managers = JoinComma(HoldersOf(k, maxStatDF[k].Value))
              /\ minStatDF[k].Managers = JoinComma(HoldersOf(k, minStatDF[k].Value))

C3_Witness ==
    /\ tpc = "summarised"
    /\ \E k \in MaxMinCats :
          /\ maxStatDF[k].Value > minStatDF[k].Value
          /\ Len(HoldersOf(k, maxStatDF[k].Value)) = 2
          /\ Len(HoldersOf(k, minStatDF[k].Value)) = 1
          /\ df[1].idx # 1

\* --------------------------------------------- claims on refresh_oauth_file
Supported == {".json", ".yaml"}
Ended == opc \in {"ValueError", "KeyError", "LibraryError", "returned"}

\* C5 as stated: an unsupported extension ends in a ValueError whatever the
\* refresh flag
C5_UnsupportedAlwaysRaises ==
    (Ended /\ oauthExt \notin Supported) => opc = "ValueError"

\* C5 as amended: with refresh an unsupported extension ends in a ValueError,
\* before the file is touched; without refresh the extension is not looked at
\* and the call goes on to OAuth2
C5_UnsupportedRaisesOnRefresh ==
    (opc \notin {"call", "idle"} /\ oauthExt \notin Supported) =>
        IF refresh THEN opc = "ValueError" /\ oauthFile.format # "absent" /\ DOMAIN newKeys = {}
        ELSE opc \in {"returned", "LibraryError"}

C5_Witness ==
    /\ opc = "ValueError"
    /\ refresh
    /\ oauthExt = ".yml"
    /\ DOMAIN oauthFile.data = FileKeys

ConsumerPair == {"consumer_key", "consumer_secret"}

\* the file holds the keys it held when the call began, with their values
KeepsOriginal(keys) ==
    /\ oauthFile.format = fileAtCall.format
    /\ keys \subseteq DOMAIN oauthFile.data
    /\ \A k \in keys : oauthFile.data[k] = fileAtCall.data[k]

C12_FailureLeavesFileAlone ==
    /\ opc \in {"ValueError", "KeyError"} => oauthFile = fileAtCall
    /\ oauthFile.format = "absent" =>
           /\ opc = "removed"
           /\ DOMAIN newKeys = ConsumerPair
           /\ \A k \in ConsumerPair : newKeys[k] = fileAtCall.data[k]

C12_Witness ==
    /\ opc = "KeyError"
    /\ oauthExt = ".json"
    /\ DOMAIN fileAtCall.data = {"consumer_key", "access_token", "refresh_token"}
    /\ DOMAIN newKeys = {"consumer_key"}

\* ------------------------------------------------------ claims on the walk
Walked == 0..(dIdx - 1)
RowsOf(t) == DOMAIN rosterTotals[t]

\* C4: after any prefix of the walk, every row of rosterTotals holds, in each
\* category, the sum of the player's stats over the walked days on which the
\* player was on the day's roster and had a game
C4_TotalsAreSumOfDays ==
    (wpc # "idle" /\ dIdx > 0) =>
        \A t \in WalkTeams : \A p \in RowsOf(t) :
            rosterTotals[t][p].stats = played[t][p]

C4_Witness ==
    /\ wpc = "walk"
    /\ dIdx > 1
    /\ \E t \in WalkTeams : \E p \in RowsOf(t), q \in RowsOf(t) :
          /\ rosterTotals[t][p].added
          /\ rosterTotals[t][p].stats[LeagueCats] = 2
          /\ ~rosterTotals[t][q].added
          /\ rosterTotals[t][q].stats[LeagueCats] = 1
          /\ games[q] = 2
          /\ q \in DOMAIN previousSunday[t]
          /\ previousSunday[t][q][LeagueCats] = 2

\* C6: the days walked are exactly the days from startDate to endDate, none
\* after endDate
C6_WalkedDaysAreTheWeek ==
    wpc # "idle" =>
        /\ Walked \subseteq 0..dateDiff
        /\ wpc # "walk" => Walked = 0..dateDiff

\* C9: after the walk a row is flagged dropped exactly when the player had a
\* row at the end of the week's last day and was not on that day's roster
C9_DroppedIsOffTheLastRoster ==
    wpc \in {"walked", "totalled"} =>
        \A t \in WalkTeams : \A p \in RowsOf(t) :
            rosterTotals[t][p].dropped <=>
                (p \in weekEnd.rows[t] /\ p \notin weekEnd.roster[t])

\* one day of the walk, seen from the added flags
C10_Step ==
    (wpc = "walk" /\ dIdx' = dIdx + 1) =>
        \A t \in WalkTeams :
            IF dIdx = 0
                THEN /\ DOMAIN rosterTotals'[t] = currentRoster'[t]
                     /\ \A p \in currentRoster'[t] : ~rosterTotals'[t][p].added
            ELSE \A p \in Players :
                    IF p \in RowsOf(t)
                        THEN /\ p \in DOMAIN rosterTotals'[t]
                             /\ rosterTotals'[t][p].added = rosterTotals[t][p].added
                    ELSE /\ p \in DOMAIN rosterTotals'[t]
                              <=> (p \in currentRoster'[t] /\ p \in DOMAIN playerStats')
                         /\ p \in DOMAIN rosterTotals'[t] => rosterTotals'[t][p].added

\* C10: the first day's roster gets rows with added = False, which stay so; a
\* row with added = True appears exactly on the first walked day the player
\* is on the roster, has a game and has no row; 'adds' counts the rows with
\* added = True at the end of the walk
C10_AddedMarksMidWeekRows ==
    /\ [][C10_Step]_vars
    /\ [](wpc = "totalled" =>
             \A t \in WalkTeams :
                adds[t] = Cardinality({p \in RowsOf(t) : rosterTotals[t][p].added}))

C10_Witness ==
    /\ wpc = "totalled"
    /\ \E t \in WalkTeams : \E p \in RowsOf(t), q \in RowsOf(t) :
          /\ adds[t] = 1
          /\ rosterTotals[t][p].added
          /\ ~rosterTotals[t][q].added
          /\ q \notin currentRoster[t]

\* C13: a team whose roster on every walked day held the players of its
\* previous-Sunday roster ends with a value added of 0 in every counting
\* category, with 0 adds, 0 improved and 0 worsened categories
C13_NoMoveNoValueAdded ==
    wpc = "totalled" =>
        \A t \in WalkTeams :
            unmoved[t] =>
                /\ \A c \in CountingStats : addedPlayerStats[t][c] = 0
                /\ adds[t] = 0
                /\ improvement[t] = 0
                /\ worsened[t] = 0

C13_Witness ==
    /\ wpc = "totalled"
    /\ \E t \in WalkTeams :
          /\ unmoved[t]
          /\ Cardinality(RowsOf(t)) = NumPlayers
          /\ \E p \in RowsOf(t) : rosterTotals[t][p].stats[LeagueCats] = MaxGames * MaxStat
          /\ addedPlayerStats[t][LeagueCats] = 0

=============================================================================
